---- MODULE Spec2Model ----
(***************************************************************************)
(* Model of tools/bookmark/run.py: the bookmark decoder (BookmarkDecoder), *)
(* the encoder registry (BookmarkEncoder), the flare encoder, the          *)
(* converter (ChromeBookmarkConverter) and main's batch loop.              *)
(*                                                                         *)
(* A Python str is a sequence of one-character strings.  The three CJK     *)
(* placeholders of the source are spelled with one token per character    *)
(* (the pinyin of the character), so that their lengths are those of the  *)
(* source and no input string can equal them by accident.                  *)
(***************************************************************************)
EXTENDS Integers, Sequences, FiniteSets, TLC

VARIABLES
    total_bookmarks,   \* BookmarkDecoder.total_bookmarks
    total_folders,     \* BookmarkDecoder.total_folders
    processed_files,   \* BookmarkDecoder.processed_files
    _formats,          \* BookmarkEncoder._formats: format name -> encoder function
    ret,               \* outcome of the last top-level call (return value or exception)
    events,            \* what the last top-level call invoked, in order
    written,           \* output artifacts written so far
    returned_sum,      \* history: sum of the lengths of the record lists decode returned
    ncalls,            \* history: number of top-level calls made
    call,              \* history: the last top-level call and its arguments
    pin,               \* argument of the function under test (function-level specifications)
    pout,              \* its outcome
    args,              \* main: the parsed command line
    pc,                \* main: where it is ("loop", "exited"; "idle" outside main)
    next_input,        \* main: index into args.input_files of the loop's next file
    results,           \* main: results
    stdout,            \* main: what main printed, one entry per block of prints
    exit_code,         \* main: <<>> until main returns, then <<its return value>>
    raised_at          \* history: index of the input whose processing raised, 0 if none

mainVars == <<args, pc, next_input, results, stdout, exit_code, raised_at>>

vars == <<total_bookmarks, total_folders, processed_files, _formats, ret,
          events, written, returned_sum, ncalls, call, pin, pout, mainVars>>

-----------------------------------------------------------------------------
(* Python values *)

\* None; no str of the model equals it (a str is a sequence of one-character strings)
None == <<"<None>">>

\* '书签栏'
ROOT_FOLDER == <<"shu", "qian", "lan">>
\* '未知日期'
UNKNOWN_DATE == <<"wei", "zhi", "ri", "qi">>
\* '无标题'
NO_TITLE == <<"wu", "biao", "ti">>
\* ' > '
FOLDER_SEP == <<" ", ">", " ">>
\* '://'
SCHEME_SEP == <<":", "/", "/">>
\* 'www.'
WWW == <<"w", "w", "w", ".">>

Returned(v) == [kind |-> "return", value |-> v, exc |-> "", msg |-> <<>>]
Raised(e, m) == [kind |-> "raise", value |-> None, exc |-> e, msg |-> m]

-----------------------------------------------------------------------------
(* str methods used by the source *)

Whitespace == {" ", "\t", "\n"}

RECURSIVE LStripSet(_, _)
\* str.lstrip(chars): drop the leading characters that are in chars
LStripSet(s, chars) ==
    IF s # <<>> /\ Head(s) \in chars THEN LStripSet(Tail(s), chars) ELSE s

RECURSIVE RStripSet(_, _)
RStripSet(s, chars) ==
    IF s # <<>> /\ s[Len(s)] \in chars
    THEN RStripSet(SubSeq(s, 1, Len(s) - 1), chars) ELSE s

\* str.strip()
Strip(s) == RStripSet(LStripSet(s, Whitespace), Whitespace)

\* str.startswith(p)
StartsWith(s, p) == Len(p) <= Len(s) /\ SubSeq(s, 1, Len(p)) = p

\* str.endswith(p)
EndsWith(s, p) == Len(p) <= Len(s) /\ SubSeq(s, Len(s) - Len(p) + 1, Len(s)) = p

\* str.find(sub) + 1: the first position where sub occurs in s, 0 when it does not
Find(s, sub) ==
    LET hits == {i \in 1..(Len(s) - Len(sub) + 1) : SubSeq(s, i, i + Len(sub) - 1) = sub}
    IN IF hits = {} THEN 0 ELSE CHOOSE i \in hits : \A j \in hits : i <= j

\* sub in s
Contains(s, sub) == Find(s, sub) # 0

RECURSIVE Split(_, _)
\* str.split(sep): the list of the pieces of s between the occurrences of sep
Split(s, sep) ==
    LET i == Find(s, sep)
    IN IF i = 0 THEN <<s>>
       ELSE <<SubSeq(s, 1, i - 1)>> \o Split(SubSeq(s, i + Len(sep), Len(s)), sep)

RECURSIVE Replace(_, _, _)
\* str.replace(old, new): every non-overlapping occurrence, left to right
Replace(s, old, new) ==
    LET i == Find(s, old)
    IN IF i = 0 THEN s
       ELSE SubSeq(s, 1, i - 1) \o new \o Replace(SubSeq(s, i + Len(old), Len(s)), old, new)

RECURSIVE Join(_, _)
\* sep.join(parts)
Join(parts, sep) ==
    IF parts = <<>> THEN <<>>
    ELSE IF Len(parts) = 1 THEN parts[1]
    ELSE parts[1] \o sep \o Join(Tail(parts), sep)

LowerChar(c) ==
    CASE c = "H" -> "h" [] c = "T" -> "t" [] c = "P" -> "p" [] c = "S" -> "s"
      [] c = "F" -> "f" [] c = "I" -> "i" [] c = "L" -> "l" [] c = "E" -> "e"
      [] c = "A" -> "a" [] c = "W" -> "w" [] OTHER -> c

\* str.lower()
Lower(s) == [i \in 1..Len(s) |-> LowerChar(s[i])]

-----------------------------------------------------------------------------
(* datetime.fromtimestamp(int(timestamp)) on a 64-bit Linux build.          *)
(* Numbers are kept as digit strings: the values that matter exceed 2^63.   *)

DecimalDigits == {"0", "1", "2", "3", "4", "5", "6", "7", "8", "9"}
\* characters for which str.isdigit() holds: the decimals and digits such as superscript two
DigitChars == DecimalDigits \cup {"sup2"}

\* str.isdigit()
IsDigit(s) == s # <<>> /\ \A i \in 1..Len(s) : s[i] \in DigitChars

DigitVal(c) == CHOOSE n \in 0..9 : ToString(n) = c

\* a digit string without its leading zeros
Canon(ds) == LStripSet(ds, {"0"})

RECURSIVE LexLeq(_, _)
LexLeq(a, b) ==
    IF a = <<>> THEN TRUE
    ELSE IF DigitVal(Head(a)) # DigitVal(Head(b)) THEN DigitVal(Head(a)) < DigitVal(Head(b))
    ELSE LexLeq(Tail(a), Tail(b))

\* a <= b for digit strings
NumLeq(a, b) ==
    LET x == Canon(a)
        y == Canon(b)
    IN IF Len(x) # Len(y) THEN Len(x) < Len(y) ELSE LexLeq(x, y)

\* 253402300799: the last second of year 9999, the largest datetime
MAX_DATETIME == <<"2","5","3","4","0","2","3","0","0","7","9","9">>
\* 67768036191676799: the last second whose year localtime() can put in a 32-bit tm_year
MAX_LOCALTIME == <<"6","7","7","6","8","0","3","6","1","9","1","6","7","6","7","9","9">>
\* 2^63 - 1: the largest time_t
MAX_TIME_T == <<"9","2","2","3","3","7","2","0","3","6","8","5","4","7","7","5","8","0","7">>

\* int(s), then datetime.fromtimestamp, then strftime('%Y-%m-%d %H:%M:%S')
FromTimestamp(s) ==
    IF \E i \in 1..Len(s) : s[i] \notin DecimalDigits
    THEN Raised("ValueError", <<>>)          \* int(): invalid literal
    ELSE IF NumLeq(s, MAX_DATETIME)
    THEN Returned(<<"Y-m-d H:M:S", "@">> \o (IF Canon(s) = <<>> THEN <<"0">> ELSE Canon(s)))
    ELSE IF NumLeq(s, MAX_LOCALTIME)
    THEN Raised("ValueError", <<>>)          \* year is out of range
    ELSE IF NumLeq(s, MAX_TIME_T)
    THEN Raised("OSError", <<>>)             \* localtime: EOVERFLOW
    ELSE Raised("OverflowError", <<>>)       \* out of range for platform time_t

-----------------------------------------------------------------------------
(* BookmarkDecoder: the static helpers *)

\* _clean_folder_path
_clean_folder_path(path) ==
    IF path = <<>> THEN ROOT_FOLDER
    ELSE Strip(LStripSet(Strip(path), {">"}))

\* _convert_timestamp: the exceptions the except clause catches
CaughtByConvert == {"ValueError", "OSError"}

\* _convert_timestamp
_convert_timestamp(timestamp) ==
    IF timestamp # <<>> /\ IsDigit(timestamp)
    THEN LET r == FromTimestamp(timestamp)
         IN IF r.kind = "return" THEN r
            ELSE IF r.exc \in CaughtByConvert THEN Returned(UNKNOWN_DATE)
            ELSE r
    ELSE Returned(UNKNOWN_DATE)

\* _extract_domain
_extract_domain(url) ==
    IF url = <<>> \/ ~Contains(url, SCHEME_SEP) THEN <<>>
    ELSE LET domain == Split(Split(url, SCHEME_SEP)[2], <<"/">>)[1]
         IN Replace(domain, WWW, <<>>)

\* _get_bookmark_type
_get_bookmark_type(url) ==
    IF url = <<>> THEN "unknown"
    ELSE LET url_lower == Lower(url)
         IN IF StartsWith(url_lower, <<"h","t","t","p",":","/","/">>)
               \/ StartsWith(url_lower, <<"h","t","t","p","s",":","/","/">>)
            THEN "website"
            ELSE IF StartsWith(url_lower, <<"f","i","l","e",":","/","/">>) THEN "local"
            ELSE IF StartsWith(url_lower, <<"j","a","v","a","s","c","r","i","p","t",":">>)
            THEN "javascript"
            ELSE IF StartsWith(url_lower, <<"m","a","i","l","t","o",":">>) THEN "email"
            ELSE "other"

\* Tag.get(key, default) on an <a> element: an absent attribute is None in attrs
Get(a_element, key, default) ==
    IF a_element.attrs[key] = None THEN default ELSE a_element.attrs[key]

\* _parse_bookmark: <<record>>, or <<>> for the None it returns when building
\* the record raised
_parse_bookmark(a_element, folder) ==
    LET title == IF Strip(a_element.string) # <<>> THEN Strip(a_element.string) ELSE NO_TITLE
        url == Strip(Get(a_element, "href", <<>>))
        add_date == _convert_timestamp(Get(a_element, "add_date", <<>>))
        last_modified == _convert_timestamp(Get(a_element, "last_modified", <<>>))
    IN IF add_date.kind = "raise" \/ last_modified.kind = "raise"
       THEN <<>>
       ELSE << [title |-> title,
             url |-> url,
             domain |-> _extract_domain(url),
             folder |-> _clean_folder_path(folder),
             add_date |-> add_date.value,
             last_modified |-> last_modified.value,
             bookmark_type |-> _get_bookmark_type(url),
             has_icon |-> Get(a_element, "icon", None) \notin {None, <<>>},
             icon |-> Get(a_element, "icon", <<>>)] >>

-----------------------------------------------------------------------------
(* The parsed markup (BeautifulSoup): the nodes in document order, each     *)
(* with its tag, the index of its parent (0: the document), its .string     *)
(* and, for a link, its attributes.                                         *)

NoAttrs == [href |-> None, add_date |-> None, last_modified |-> None, icon |-> None]

RECURSIVE find_parent(_, _, _)
\* Tag.find_parent(name): the nearest ancestor with that tag, 0 when there is none
find_parent(soup, i, name) ==
    LET p == soup[i].parent
    IN IF p = 0 THEN 0
       ELSE IF soup[p].tag = name THEN p
       ELSE find_parent(soup, p, name)

\* Tag.find_previous_sibling(name): the nearest earlier sibling with that tag, 0 when none
find_previous_sibling(soup, i, name) ==
    LET sibs == {j \in 1..(i - 1) : soup[j].parent = soup[i].parent /\ soup[j].tag = name}
    IN IF sibs = {} THEN 0 ELSE CHOOSE j \in sibs : \A k \in sibs : k <= j

RECURSIVE IsUnder(_, _, _)
IsUnder(soup, i, root) ==
    LET p == soup[i].parent
    IN IF p = 0 THEN FALSE ELSE IF p = root THEN TRUE ELSE IsUnder(soup, p, root)

RECURSIVE FindAllFrom(_, _, _, _)
FindAllFrom(soup, root, name, i) ==
    IF i > Len(soup) THEN <<>>
    ELSE (IF soup[i].tag = name /\ IsUnder(soup, i, root) THEN <<i>> ELSE <<>>)
         \o FindAllFrom(soup, root, name, i + 1)

\* Tag.find_all(name): the descendants of root with that tag, in document order
find_all(soup, root, name) == FindAllFrom(soup, root, name, 1)

\* soup.find(name): the first node with that tag, 0 when there is none
find(soup, name) ==
    LET hits == {i \in 1..Len(soup) : soup[i].tag = name}
    IN IF hits = {} THEN 0 ELSE CHOOSE i \in hits : \A j \in hits : i <= j

RECURSIVE FolderPathWalk_Appending(_, _, _)
\* FolderPathWalk putting each title after those of the inner lists (append for insert(0, ...))
FolderPathWalk_Appending(soup, parent, folder_path) ==
    IF parent = 0 THEN folder_path
    ELSE LET folder_tag == find_previous_sibling(soup, parent, "h3")
             next_path == IF folder_tag # 0 /\ soup[folder_tag].string \notin {None, <<>>}
                          THEN folder_path \o <<soup[folder_tag].string>>
                          ELSE folder_path
         IN FolderPathWalk_Appending(soup, find_parent(soup, parent, "dl"), next_path)

RECURSIVE FolderPathWalk(_, _, _)
\* the while loop of _parse_folder: walk up the enclosing dl lists from parent
FolderPathWalk(soup, parent, folder_path) ==
    IF parent = 0 THEN folder_path
    ELSE LET folder_tag == find_previous_sibling(soup, parent, "h3")
             next_path == IF folder_tag # 0 /\ soup[folder_tag].string \notin {None, <<>>}
                          THEN <<soup[folder_tag].string>> \o folder_path
                          ELSE folder_path
         IN FolderPathWalk(soup, find_parent(soup, parent, "dl"), next_path)

\* the folder string _parse_folder computes for one link
FolderOf(soup, link) ==
    LET folder_path == FolderPathWalk(soup, find_parent(soup, link, "dl"), <<>>)
    IN IF folder_path # <<>> THEN Join(folder_path, FOLDER_SEP) ELSE ROOT_FOLDER

\* ParseFolderLoop leaving the loop at the first link whose record is None
ParseFolderLoop_Stopping(soup, links, acc) ==
    LET failed == {k \in 1..Len(links) :
                     _parse_bookmark(soup[links[k]], FolderOf(soup, links[k])) = <<>>}
        kept == IF failed = {} THEN links
                ELSE SubSeq(links, 1, (CHOOSE k \in failed : \A j \in failed : k <= j) - 1)
    IN [bookmarks |-> acc.bookmarks \o
            [k \in 1..Len(kept) |-> _parse_bookmark(soup[kept[k]], FolderOf(soup, kept[k]))[1]],
        counted |-> acc.counted + Len(kept)]

\* ParseFolderLoop counting every link visited, skipped or not
ParseFolderLoop_CountingAll(soup, links, acc) ==
    LET kept == SelectSeq(links,
                    LAMBDA i : _parse_bookmark(soup[i], FolderOf(soup, i)) # <<>>)
    IN [bookmarks |-> acc.bookmarks \o
            [k \in 1..Len(kept) |-> _parse_bookmark(soup[kept[k]], FolderOf(soup, kept[k]))[1]],
        counted |-> acc.counted + Len(links)]

RECURSIVE ParseFolderLoop(_, _, _)
\* the for loop of _parse_folder over the links still to visit; acc holds the
\* bookmarks list and the number of times total_bookmarks was incremented
ParseFolderLoop(soup, links, acc) ==
    IF links = <<>> THEN acc
    ELSE LET bookmark == _parse_bookmark(soup[Head(links)], FolderOf(soup, Head(links)))
         IN ParseFolderLoop(soup, Tail(links),
                IF bookmark # <<>>
                THEN [bookmarks |-> Append(acc.bookmarks, bookmark[1]),
                      counted |-> acc.counted + 1]
                ELSE acc)

\* _parse_folder
_parse_folder(soup, root) ==
    ParseFolderLoop(soup, find_all(soup, root, "a"), [bookmarks |-> <<>>, counted |-> 0])

\* decode, after BeautifulSoup has parsed html_content into soup
decode(soup) ==
    LET root == find(soup, "dl")
    IN IF root = 0 THEN [bookmarks |-> <<>>, counted |-> 0]
       ELSE _parse_folder(soup, root)

-----------------------------------------------------------------------------
(* Bounds and the inputs drawn within them *)

\* deepest nesting of dl lists in an input markup
MaxDepth == 3
\* number of top-level calls in one run
MaxCalls == 2
\* number of pieces a URL under test is assembled from
MaxUrlPieces == 4
\* longest record list handed to the flare encoder under test
MaxRecords == 3

\* no h3 before a dl
Absent == <<"<absent>">>

Titles == { <<"A">>, <<"B">>, <<">">>, <<" ">>, <<">", "A">>, <<"B", " ">> }

\* what may precede a dl: nothing, an h3 whose .string is None, an h3 with a title
Heads == {Absent, None} \cup Titles

HTTP_A == <<"h","t","t","p",":","/","/","a">>
EPOCH == <<"0">>
\* 10^20 - 1, beyond the largest time_t
BEYOND_TIME_T == [i \in 1..20 |-> "9"]

DL(p) == [tag |-> "dl", parent |-> p, string |-> None, attrs |-> NoAttrs]
H3(p, s) == [tag |-> "h3", parent |-> p, string |-> s, attrs |-> NoAttrs]
A(p, text, href, add_date, last_modified, icon) ==
    [tag |-> "a", parent |-> p, string |-> text,
     attrs |-> [href |-> href, add_date |-> add_date, last_modified |-> last_modified,
                icon |-> icon]]

\* the k-th link of a markup: "ok" parses, "bad" carries an add_date beyond time_t
LinkKinds == {"none", "ok", "bad"}
LinkNode(p, k, kind) ==
    IF kind = "none" THEN <<>>
    ELSE <<A(p, <<"L", ToString(k)>>, HTTP_A,
             IF kind = "ok" THEN EPOCH ELSE BEYOND_TIME_T, None, None)>>

RECURSIVE BuildChain(_, _, _, _, _, _)
\* levels k..d of a chain of nested folders appended to acc: at each level the
\* h3 (if any), the dl, the level's link (if any), then the next level inside the dl
BuildChain(k, d, heads, links, acc, parent) ==
    LET with_h3 == IF heads[k] = Absent THEN acc ELSE Append(acc, H3(parent, heads[k]))
        dl == Len(with_h3) + 1
        with_link == Append(with_h3, DL(parent)) \o LinkNode(dl, k, links[k])
    IN IF k = d THEN with_link ELSE BuildChain(k + 1, d, heads, links, with_link, dl)

\* a chain of d nested folders, then a last link directly in the root dl
ChainDoc(d, heads, links, tail) ==
    LET body == BuildChain(1, d, heads, links, <<>>, 0)
    IN body \o LinkNode(find(body, "dl"), d + 1, tail)

\* markups that vary the headings: one link, in the innermost folder; the root has
\* no heading, the outermost and the innermost folder take every heading, the
\* folders between them are titled B
HeadingDocs ==
    UNION { { ChainDoc(d, heads, [k \in 1..d |-> IF k = d THEN "ok" ELSE "none"], "none") :
                heads \in {h \in [1..d -> Heads] :
                              /\ h[1] = Absent
                              /\ \A k \in 3..(d - 1) : h[k] = <<"B">>} } : d \in 1..MaxDepth }

\* markups that vary the links: folders A, B, A, ... below a root without heading
LinkDocs ==
    UNION { { ChainDoc(d, [k \in 1..d |-> IF k = 1 THEN Absent
                                          ELSE IF k % 2 = 0 THEN <<"A">> ELSE <<"B">>],
                       c[1], c[2]) :
                c \in [1..d -> LinkKinds] \X {"none", "ok"} } : d \in 1..MaxDepth }

\* a markup without any dl: decode finds no root
NoRootDoc == <<A(0, <<"L", "1">>, HTTP_A, EPOCH, None, None)>>

Docs == HeadingDocs \cup LinkDocs \cup {NoRootDoc, <<>>}

File(exists, readable, soup) == [exists |-> exists, readable |-> readable, soup |-> soup]

\* the input files of a run: a missing path, an unreadable file, a file without
\* root, files with zero records (no link; only a link that fails to parse), and
\* files with records
InputFiles ==
    { File(FALSE, FALSE, <<>>),
      File(TRUE, FALSE, <<>>),
      File(TRUE, TRUE, NoRootDoc),
      File(TRUE, TRUE, ChainDoc(1, <<Absent>>, <<"none">>, "none")),
      File(TRUE, TRUE, ChainDoc(1, <<Absent>>, <<"bad">>, "none")),
      File(TRUE, TRUE, ChainDoc(1, <<Absent>>, <<"ok">>, "none")),
      File(TRUE, TRUE, ChainDoc(2, <<Absent, <<"A">> >>, <<"ok", "bad">>, "ok")),
      File(TRUE, TRUE, ChainDoc(2, <<Absent, <<"A">> >>, <<"ok", "ok">>, "ok")) }

OutputFiles == {None, <<"o">>}

\* how the writing of an output goes: it succeeds, open() raises, or the file is
\* opened for writing and the dump raises
IOOutcomes == {"ok", "open fails", "write fails"}

\* format names a caller may pass: the built-in ones and one that is not built in
FormatNames == {"excel", "csv", "stdout", "flare", "xml"}

\* the registrations a run may add
Registrations == {<<"xml", "_encode_json">>, <<"csv", "_encode_stdout">>}

-----------------------------------------------------------------------------
(* BookmarkEncoder: the registry and the built-in encoders.  _formats is a  *)
(* dict: a list of (name, func) entries in insertion order, one per name.   *)

HasFormat(formats, name) == \E i \in 1..Len(formats) : formats[i].name = name

LookupFormat(formats, name) ==
    formats[CHOOSE i \in 1..Len(formats) : formats[i].name = name].func

\* register_format: cls._formats[format_name] = encoder_func
register_format(formats, format_name, encoder_func) ==
    IF HasFormat(formats, format_name)
    THEN [i \in 1..Len(formats) |->
            IF formats[i].name = format_name
            THEN [name |-> format_name, func |-> encoder_func] ELSE formats[i]]
    ELSE Append(formats, [name |-> format_name, func |-> encoder_func])

\* get_available_formats: list(cls._formats.keys())
get_available_formats(formats) == [i \in 1..Len(formats) |-> formats[i].name]

\* the module-level register_format calls
BuiltinFormats ==
    << [name |-> "excel", func |-> "_encode_excel"],
       [name |-> "csv", func |-> "_encode_csv"],
       [name |-> "json", func |-> "_encode_json"],
       [name |-> "stdout", func |-> "_encode_stdout"],
       [name |-> "flare", func |-> "_encode_flare"] >>

\* datetime.now().strftime('%Y%m%d_%H%M%S')
NOW == <<"<now>">>

\* f"bookmarks_{now}{ext}" when no output_file is given, else output_file with ext appended
\* unless it already ends with one of exts
OutputName(output_file, ext, exts) ==
    IF output_file \in {None, <<>>} THEN <<"bookmarks_">> \o NOW \o ext
    ELSE IF ~\E e \in exts : EndsWith(output_file, e) THEN output_file \o ext
    ELSE output_file

EXT_XLSX == <<".", "x", "l", "s", "x">>
EXT_CSV == <<".", "c", "s", "v">>
EXT_JSON == <<".", "j", "s", "o", "n">>
EXT_YML == <<".", "y", "m", "l">>
EXT_YAML == <<".", "y", "a", "m", "l">>
\* 'data:image/'
DATA_IMAGE == <<"d","a","t","a",":","i","m","a","g","e","/">>

\* what an encoder call does: its outcome and the artifacts it wrote
Outcome(r, files) == [ret |-> r, files |-> files]

\* what a failing encoder leaves under its output name: nothing when the file
\* could not be opened; when open(name, 'w') succeeded and the dump raised, the
\* file as the open truncated it and the dump left it
Opened(name, func, io) ==
    IF io = "write fails" THEN <<[file |-> name, by |-> func, truncated |-> TRUE]>> ELSE <<>>

\* an encoder that writes the records to one file and returns its name
FileEncoder(func, bookmarks, output_file, ext, io) ==
    LET name == OutputName(output_file, ext, {ext})
    IN IF io = "ok"
       THEN Outcome(Returned(name), <<[file |-> name, by |-> func, count |-> Len(bookmarks)]>>)
       ELSE Outcome(Raised("OSError", <<>>), Opened(name, func, io))

\* _encode_excel
_encode_excel(bookmarks, output_file, io) ==
    FileEncoder("_encode_excel", bookmarks, output_file, EXT_XLSX, io)

\* _encode_csv
_encode_csv(bookmarks, output_file, io) ==
    FileEncoder("_encode_csv", bookmarks, output_file, EXT_CSV, io)

\* _encode_json
_encode_json(bookmarks, output_file, io) ==
    FileEncoder("_encode_json", bookmarks, output_file, EXT_JSON, io)

\* _encode_stdout
_encode_stdout(bookmarks, output_file, io) == Outcome(Returned(None), <<>>)

\* ord(c) for the characters folder names are made of
Ord(c) ==
    CASE c = "\t" -> 9 [] c = "\n" -> 10 [] c = " " -> 32 [] c = ">" -> 62
      [] c = "A" -> 65 [] c = "B" -> 66 [] c = "C" -> 67
      [] c = "shu" -> 20070 [] c = "lan" -> 26639 [] c = "qian" -> 31614

RECURSIVE StrLess(_, _)
\* a < b for str: lexicographic by code point
StrLess(a, b) ==
    IF b = <<>> THEN FALSE
    ELSE IF a = <<>> THEN TRUE
    ELSE IF Head(a) # Head(b) THEN Ord(Head(a)) < Ord(Head(b))
    ELSE StrLess(Tail(a), Tail(b))

RECURSIVE Sorted(_)
\* sorted(S) for a set of str
Sorted(S) ==
    IF S = {} THEN <<>>
    ELSE LET m == CHOOSE x \in S : \A y \in S \ {x} : StrLess(x, y)
         IN <<m>> \o Sorted(S \ {m})

\* the folders list of _encode_flare
FlareFolders(bookmarks) ==
    Sorted({bookmarks[i].folder : i \in {j \in 1..Len(bookmarks) : bookmarks[j].folder # <<>>}})

\* FlareCategories numbering the categories from 0
FlareCategories_ZeroBased(folders) ==
    [i \in 1..Len(folders) |-> [id |-> i - 1, title |-> folders[i]]]

\* the categories list of _encode_flare
FlareCategories(folders) == [i \in 1..Len(folders) |-> [id |-> i, title |-> folders[i]]]

\* the folder_to_id dict of _encode_flare
FolderToId(folders) ==
    [f \in {folders[i] : i \in 1..Len(folders)} |-> CHOOSE i \in 1..Len(folders) : folders[i] = f]

\* one entry of the links list of _encode_flare; the optional keys are present
\* only when the source sets them
FlareLink(bookmark, folder_to_id) ==
    LET icon == bookmark.icon
        folder == bookmark.folder
        base == [name |-> bookmark.title, link |-> bookmark.url]
        with_icon == IF icon # <<>> /\ ~StartsWith(icon, DATA_IMAGE)
                     THEN base @@ [icon |-> icon] ELSE base
    IN IF folder # <<>> /\ folder \in DOMAIN folder_to_id
       THEN with_icon @@ [category |-> folder_to_id[folder]] ELSE with_icon

\* the data dict _encode_flare dumps
FlareData(bookmarks) ==
    LET folders == FlareFolders(bookmarks)
        folder_to_id == FolderToId(folders)
    IN [categories |-> FlareCategories(folders),
        links |-> [i \in 1..Len(bookmarks) |-> FlareLink(bookmarks[i], folder_to_id)]]

\* _encode_flare
_encode_flare(bookmarks, output_file, io) ==
    LET name == OutputName(output_file, EXT_YML, {EXT_YML, EXT_YAML})
    IN IF io = "ok"
       THEN Outcome(Returned(None),
                <<[file |-> name, by |-> "_encode_flare", count |-> Len(bookmarks),
                   data |-> FlareData(bookmarks)]>>)
       ELSE Outcome(Raised("OSError", <<>>), Opened(name, "_encode_flare", io))

\* encoder(bookmarks, output_file, **kwargs) for a registered encoder function
CallEncoder(func, bookmarks, output_file, io) ==
    CASE func = "_encode_excel" -> _encode_excel(bookmarks, output_file, io)
      [] func = "_encode_csv" -> _encode_csv(bookmarks, output_file, io)
      [] func = "_encode_json" -> _encode_json(bookmarks, output_file, io)
      [] func = "_encode_stdout" -> _encode_stdout(bookmarks, output_file, io)
      [] func = "_encode_flare" -> _encode_flare(bookmarks, output_file, io)

\* '不支持的输出格式: '
UNSUPPORTED == "bu zhi chi de shu chu ge shi: "

\* encode handing the records of an unregistered format to the JSON encoder
encode_Defaulting(formats, bookmarks, output_format, output_file, io) ==
    IF ~HasFormat(formats, output_format)
    THEN [ret |-> _encode_json(bookmarks, output_file, io).ret,
          files |-> _encode_json(bookmarks, output_file, io).files,
          events |-> <<"encode", "_encode_json">>]
    ELSE [ret |-> CallEncoder(LookupFormat(formats, output_format), bookmarks, output_file,
                              io).ret,
          files |-> CallEncoder(LookupFormat(formats, output_format), bookmarks, output_file,
                                io).files,
          events |-> <<"encode", LookupFormat(formats, output_format)>>]

\* the return of encode: the outcome o of the encoder function it called
Encoded(encoder, o) == [ret |-> o.ret, files |-> o.files, events |-> <<"encode", encoder>>]

\* BookmarkEncoder.encode: the outcome (the message of the ValueError is the pieces
\* of its f-string), the artifacts written, the functions invoked
encode(formats, bookmarks, output_format, output_file, io) ==
    IF ~HasFormat(formats, output_format)
    THEN [ret |-> Raised("ValueError", <<UNSUPPORTED, output_format>>),
          files |-> <<>>, events |-> <<"encode">>]
    ELSE Encoded(LookupFormat(formats, output_format),
                 CallEncoder(LookupFormat(formats, output_format), bookmarks, output_file, io))

-----------------------------------------------------------------------------
(* decode_html and ChromeBookmarkConverter.convert.  An input file is       *)
(* whether its path exists, whether open() succeeds, and the markup its     *)
(* text parses to.                                                          *)

\* decode tabulated over the markups of a run
DecodeOf == [soup \in Docs \cup {f.soup : f \in InputFiles} |-> decode(soup)]

\* the return of decode_html once the file is read: d is what decode did
Decoded_html(d) ==
    [ret |-> Returned(d.bookmarks), counted |-> d.counted, files_read |-> 1,
     events |-> <<"decode_html", "decode">>]

\* decode_html: the outcome, the increments of the two counters, the functions invoked
decode_html(file) ==
    IF ~file.exists
    THEN [ret |-> Raised("FileNotFoundError", <<>>), counted |-> 0, files_read |-> 0,
          events |-> <<"decode_html">>]
    ELSE IF ~file.readable
    THEN [ret |-> Raised("OSError", <<>>), counted |-> 0, files_read |-> 0,
          events |-> <<"decode_html">>]
    ELSE Decoded_html(DecodeOf[file.soup])

\* what convert gives after the decoding d: the outcome r, the artifacts and the
\* functions invoked past the decoding
Converted(d, r, files, more_events) ==
    [ret |-> r, counted |-> d.counted, files_read |-> d.files_read, decoded |-> d.ret,
     files |-> files, events |-> d.events \o more_events]

\* the encoding phase of convert, e being what encode did
ConvertEncoded(d, e) == Converted(d, e.ret, e.files, e.events)

\* convert looking up the format before it decodes
convert_FormatFirst(formats, input_file, output_format, output_file, io) ==
    IF ~HasFormat(formats, output_format)
    THEN [ret |-> Raised("ValueError", <<UNSUPPORTED, output_format>>), counted |-> 0,
          files_read |-> 0, decoded |-> Raised("ValueError", <<>>), files |-> <<>>,
          events |-> <<>>]
    ELSE IF decode_html(input_file).ret.kind = "raise"
    THEN Converted(decode_html(input_file), decode_html(input_file).ret, <<>>, <<>>)
    ELSE IF decode_html(input_file).ret.value = <<>>
    THEN Converted(decode_html(input_file), Returned(None), <<>>, <<>>)
    ELSE ConvertEncoded(decode_html(input_file),
            encode(formats, decode_html(input_file).ret.value, output_format, output_file,
                   io))

\* convert handing an empty record list to the encoder
convert_EncodingEmpty(formats, input_file, output_format, output_file, io) ==
    IF decode_html(input_file).ret.kind = "raise"
    THEN Converted(decode_html(input_file), decode_html(input_file).ret, <<>>, <<>>)
    ELSE ConvertEncoded(decode_html(input_file),
            encode(formats, decode_html(input_file).ret.value, output_format, output_file,
                   io))

\* convert after its decoding phase, d being what decode_html did
ConvertDecoded(d, formats, output_format, output_file, io) ==
    IF d.ret.kind = "raise" THEN Converted(d, d.ret, <<>>, <<>>)
    ELSE IF d.ret.value = <<>> THEN Converted(d, Returned(None), <<>>, <<>>)
    ELSE ConvertEncoded(d, encode(formats, d.ret.value, output_format, output_file, io))

\* convert: the outcome, the counter increments, the artifacts, the functions invoked
convert(formats, input_file, output_format, output_file, io) ==
    ConvertDecoded(decode_html(input_file), formats, output_format, output_file, io)

\* record lists handed directly to encode
EncodeInputs == { DecodeOf[f.soup].bookmarks : f \in {g \in InputFiles : g.exists /\ g.readable} }

-----------------------------------------------------------------------------
(* The program: one decoder and the class-level registry, driven by calls   *)

NoCall == [op |-> "none"]
NoInput == [of |-> "none"]
NotApplied == [fn |-> "none"]
NoArgs == [input_files |-> <<>>]

\* main is not running
MainIdle ==
    /\ args = NoArgs
    /\ pc = "idle"
    /\ next_input = 0
    /\ results = <<>>
    /\ stdout = <<>>
    /\ exit_code = <<>>
    /\ raised_at = 0

Init ==
    /\ total_bookmarks = 0
    /\ total_folders = 0
    /\ processed_files = 0
    /\ _formats = BuiltinFormats
    /\ ret = Returned(None)
    /\ events = <<>>
    /\ written = <<>>
    /\ returned_sum = 0
    /\ ncalls = 0
    /\ call = NoCall
    /\ pin = NoInput
    /\ pout = NotApplied
    /\ MainIdle

\* the decoder's state after a decode that did d
DecoderAfter(d) ==
    /\ total_bookmarks' = total_bookmarks + d.counted
    /\ ret' = Returned(d.bookmarks)
    /\ returned_sum' = returned_sum + Len(d.bookmarks)

\* decoder.decode(html_content), html_content parsing to soup
Decode(soup) ==
    /\ ncalls < MaxCalls
    /\ DecoderAfter(DecodeOf[soup])
    /\ events' = <<"decode">>
    /\ call' = [op |-> "decode", soup |-> soup]
    /\ ncalls' = ncalls + 1
    /\ UNCHANGED <<total_folders, processed_files, _formats, written, pin, pout, mainVars>>

\* the decoder's state after a decode_html that did d
DecoderAfterHtml(d) ==
    /\ total_bookmarks' = total_bookmarks + d.counted
    /\ processed_files' = processed_files + d.files_read
    /\ ret' = d.ret
    /\ events' = d.events
    /\ returned_sum' = returned_sum + (IF d.ret.kind = "return" THEN Len(d.ret.value) ELSE 0)

\* decoder.decode_html(file_path)
DecodeHtml(file) ==
    /\ ncalls < MaxCalls
    /\ DecoderAfterHtml(decode_html(file))
    /\ call' = [op |-> "decode_html", file |-> file]
    /\ ncalls' = ncalls + 1
    /\ UNCHANGED <<total_folders, _formats, written, pin, pout, mainVars>>

\* BookmarkEncoder.register_format(format_name, encoder_func)
RegisterFormat(format_name, encoder_func) ==
    /\ ncalls < MaxCalls
    /\ _formats' = register_format(_formats, format_name, encoder_func)
    /\ ret' = Returned(None)
    /\ events' = <<"register_format">>
    /\ call' = [op |-> "register_format", format_name |-> format_name]
    /\ ncalls' = ncalls + 1
    /\ UNCHANGED <<total_bookmarks, total_folders, processed_files, written,
                   returned_sum, pin, pout, mainVars>>

\* BookmarkEncoder.get_available_formats()
GetAvailableFormats ==
    /\ ncalls < MaxCalls
    /\ ret' = Returned(get_available_formats(_formats))
    /\ events' = <<"get_available_formats">>
    /\ call' = [op |-> "get_available_formats"]
    /\ ncalls' = ncalls + 1
    /\ UNCHANGED <<total_bookmarks, total_folders, processed_files, _formats, written,
                   returned_sum, pin, pout, mainVars>>

\* the state after an encode that did e
AfterEncode(e) ==
    /\ ret' = e.ret
    /\ events' = e.events
    /\ written' = written \o e.files

\* BookmarkEncoder.encode(bookmarks, output_format, output_file)
Encode(bookmarks, output_format, output_file, io) ==
    /\ ncalls < MaxCalls
    /\ AfterEncode(encode(_formats, bookmarks, output_format, output_file, io))
    /\ call' = [op |-> "encode", output_format |-> output_format, bookmarks |-> bookmarks]
    /\ ncalls' = ncalls + 1
    /\ UNCHANGED <<total_bookmarks, total_folders, processed_files, _formats,
                   returned_sum, pin, pout, mainVars>>

\* the state after a convert that did c
AfterConvert(c) ==
    /\ total_bookmarks' = total_bookmarks + c.counted
    /\ processed_files' = processed_files + c.files_read
    /\ ret' = c.ret
    /\ events' = <<"convert">> \o c.events
    /\ written' = written \o c.files
    /\ returned_sum' = returned_sum +
          (IF c.decoded.kind = "return" THEN Len(c.decoded.value) ELSE 0)

\* ChromeBookmarkConverter.convert(input_file, output_format, output_file)
Convert(input_file, output_format, output_file, io) ==
    /\ ncalls < MaxCalls
    /\ AfterConvert(convert(_formats, input_file, output_format, output_file, io))
    /\ call' = [op |-> "convert", file |-> input_file, output_format |-> output_format]
    /\ ncalls' = ncalls + 1
    /\ UNCHANGED <<total_folders, _formats, pin, pout, mainVars>>

\* calls on one BookmarkDecoder
NextDecoder ==
    \/ \E soup \in Docs : Decode(soup)
    \/ \E file \in InputFiles : DecodeHtml(file)

SpecDecoder == Init /\ [][NextDecoder]_vars

\* calls on the registry and on one ChromeBookmarkConverter
NextConverter ==
    \/ \E r \in Registrations : RegisterFormat(r[1], r[2])
    \/ GetAvailableFormats
    \/ \E bookmarks \in EncodeInputs, output_format \in FormatNames,
          output_file \in OutputFiles, io \in IOOutcomes :
            Encode(bookmarks, output_format, output_file, io)
    \/ \E input_file \in InputFiles, output_format \in FormatNames,
          output_file \in OutputFiles, io \in IOOutcomes :
            Convert(input_file, output_format, output_file, io)

SpecConverter == Init /\ [][NextConverter]_vars

-----------------------------------------------------------------------------
(* The decoder's helpers on their own: one <a> element, one function applied *)

UrlPieces == { <<"h","t","t","p">>, SCHEME_SEP, WWW, <<"a">>, <<"/">>, <<" ">> }

RECURSIVE UrlsOf(_)
\* the strings assembled from at most n pieces
UrlsOf(n) ==
    IF n = 0 THEN {<<>>}
    ELSE LET shorter == UrlsOf(n - 1)
         IN shorter \cup {u \o q : u \in shorter, q \in UrlPieces}

\* 'http://www.example.com/x'
EXAMPLE_URL == <<"h","t","t","p",":","/","/","w","w","w",".","e","x","a","m","p","l","e",
                 ".","c","o","m","/","x">>

\* the URLs under test: those with at most one '://'
Urls == {u \in UrlsOf(MaxUrlPieces) : Len(Split(u, SCHEME_SEP)) <= 2} \cup {EXAMPLE_URL}

\* add_date and last_modified values: absent, empty, not numeric, a digit that is
\* not a decimal, and numbers on both sides of each limit of the date conversion
Timestamps ==
    { None, <<>>, EPOCH, <<"0", "7">>, <<"a">>, <<"1", "a">>, <<"-", "1">>, <<"sup2">>,
      <<"1","6","9","3","5","2","6","4","0","0">>,
      MAX_DATETIME,
      <<"2","5","3","4","0","2","3","0","0","8","0","0">>,
      MAX_LOCALTIME,
      <<"6","7","7","6","8","0","3","6","1","9","1","6","7","6","8","0","0">>,
      MAX_TIME_T,
      <<"9","2","2","3","3","7","2","0","3","6","8","5","4","7","7","5","8","0","8">>,
      BEYOND_TIME_T }

Icons == {None, <<"i">>, DATA_IMAGE \o <<"x">>}

\* the <a> elements under test: every URL with a plain link, every pair of
\* timestamps with a plain URL
BookmarkInputs ==
    { [of |-> "a", a_element |-> A(1, <<"t">>, href, EPOCH, None, icon), folder |-> <<"A">>] :
        href \in Urls \cup {None}, icon \in Icons }
    \cup
    { [of |-> "a", a_element |-> A(1, text, HTTP_A, add_date, last_modified, None),
       folder |-> folder] :
        add_date \in Timestamps, last_modified \in Timestamps,
        text \in {<<"t">>, <<" ">>}, folder \in {<<"A">>, <<>>} }

InitBookmark ==
    /\ total_bookmarks = 0
    /\ total_folders = 0
    /\ processed_files = 0
    /\ _formats = BuiltinFormats
    /\ ret = Returned(None)
    /\ events = <<>>
    /\ written = <<>>
    /\ returned_sum = 0
    /\ ncalls = 0
    /\ call = NoCall
    /\ pin \in BookmarkInputs
    /\ pout = NotApplied
    /\ MainIdle

OnlyPout ==
    UNCHANGED <<total_bookmarks, total_folders, processed_files, _formats, ret, events,
                written, returned_sum, ncalls, call, pin, mainVars>>

\* BookmarkDecoder._extract_domain(url) on the element's href
ExtractDomain ==
    /\ pout = NotApplied
    /\ pout' = [fn |-> "_extract_domain",
                value |-> _extract_domain(Get(pin.a_element, "href", <<>>))]
    /\ OnlyPout

\* BookmarkDecoder._convert_timestamp(timestamp) on the element's add_date
ConvertTimestamp ==
    /\ pout = NotApplied
    /\ pout' = [fn |-> "_convert_timestamp",
                value |-> _convert_timestamp(Get(pin.a_element, "add_date", <<>>))]
    /\ OnlyPout

\* BookmarkDecoder._get_bookmark_type(url) on the element's href
GetBookmarkType ==
    /\ pout = NotApplied
    /\ pout' = [fn |-> "_get_bookmark_type",
                value |-> _get_bookmark_type(Get(pin.a_element, "href", <<>>))]
    /\ OnlyPout

\* decoder._parse_bookmark(a_element, folder)
ParseBookmark ==
    /\ pout = NotApplied
    /\ pout' = [fn |-> "_parse_bookmark",
                value |-> _parse_bookmark(pin.a_element, pin.folder)]
    /\ OnlyPout

NextBookmark == ExtractDomain \/ ConvertTimestamp \/ GetBookmarkType \/ ParseBookmark

SpecBookmark == InitBookmark /\ [][NextBookmark]_vars

-----------------------------------------------------------------------------
(* The flare encoder on its own: one record list, encoded once *)

FlareFolderValues == { <<>>, <<"A">>, <<"B">>, ROOT_FOLDER, <<"A">> \o FOLDER_SEP \o <<"B">> }

\* records as _parse_bookmark builds them, over the folders and icons above
FlareRecords ==
    { [title |-> <<"t">>, url |-> HTTP_A, domain |-> <<"a">>, folder |-> folder,
       add_date |-> UNKNOWN_DATE, last_modified |-> UNKNOWN_DATE,
       bookmark_type |-> "website", has_icon |-> icon # <<>>, icon |-> icon] :
        folder \in FlareFolderValues, icon \in {<<>>, DATA_IMAGE \o <<"x">>} }

RECURSIVE ListsOf(_, _)
\* the lists of at most n elements of S
ListsOf(S, n) ==
    IF n = 0 THEN {<<>>}
    ELSE LET shorter == ListsOf(S, n - 1)
         IN shorter \cup {Append(l, x) : l \in shorter, x \in S}

InitFlare ==
    /\ total_bookmarks = 0
    /\ total_folders = 0
    /\ processed_files = 0
    /\ _formats = BuiltinFormats
    /\ ret = Returned(None)
    /\ events = <<>>
    /\ written = <<>>
    /\ returned_sum = 0
    /\ ncalls = 0
    /\ call = NoCall
    /\ pin \in {[of |-> "bookmarks", bookmarks |-> l] : l \in ListsOf(FlareRecords, MaxRecords)}
    /\ pout = NotApplied
    /\ MainIdle

\* _encode_flare(bookmarks, output_file)
EncodeFlare(output_file, io) ==
    /\ pout = NotApplied
    /\ pout' = [fn |-> "_encode_flare",
                value |-> _encode_flare(pin.bookmarks, output_file, io)]
    /\ OnlyPout

NextFlare == \E output_file \in OutputFiles, io \in IOOutcomes : EncodeFlare(output_file, io)

SpecFlare == InitFlare /\ [][NextFlare]_vars

-----------------------------------------------------------------------------
(* main: the batch loop over args.input_files.  One step per iteration of   *)
(* the loop (the except clause of main runs in the step whose call raised)  *)
(* and one for the summary and the return.  An input file is its base name  *)
(* and the file at its path; stdout accepts everything main prints.         *)

MaxInputs == 3

\* os.path.splitext(os.path.basename(input_file))[0] of the paths on the command line
BaseNames == {<<"x">>, <<"y">>}

\* the files on the command line: a missing path, an unreadable file, a file
\* without records, a file with one record
MainFiles ==
    { File(FALSE, FALSE, <<>>),
      File(TRUE, FALSE, <<>>),
      File(TRUE, TRUE, NoRootDoc),
      File(TRUE, TRUE, ChainDoc(1, <<Absent>>, <<"ok">>, "none")) }

InputPath(base_name, file) == [base_name |-> base_name, file |-> file]

\* -f/--format takes one of get_available_formats(); an encoder that writes a
\* file and one that does not
MainFormats == {"json", "stdout"}

\* parser.parse_args(): nargs='+' gives at least one input file
MainArgs ==
    [ input_files : ListsOf({InputPath(b, f) : b \in BaseNames, f \in MainFiles}, MaxInputs)
                       \ {<<>>},
      format : MainFormats,
      output : OutputFiles,
      stats_only : BOOLEAN ]

InitMain ==
    /\ total_bookmarks = 0
    /\ total_folders = 0
    /\ processed_files = 0
    /\ _formats = BuiltinFormats
    /\ ret = Returned(None)
    /\ events = <<>>
    /\ written = <<>>
    /\ returned_sum = 0
    /\ ncalls = 0
    /\ call = NoCall
    /\ pin = NoInput
    /\ pout = NotApplied
    /\ args \in MainArgs
    /\ pc = "loop"
    /\ next_input = 1
    /\ results = <<>>
    /\ stdout = <<>>
    /\ exit_code = <<>>
    /\ raised_at = 0

\* the loop is at an input file
AtInput == pc = "loop" /\ next_input <= Len(args.input_files)

input_file == args.input_files[next_input]

\* the output file name of the iteration: args.output, made a prefix of the
\* input's base name when there are several input files
MainOutputFile ==
    IF args.output \notin {None, <<>>} /\ Len(args.input_files) > 1
    THEN args.output \o <<"_">> \o input_file.base_name
    ELSE args.output

\* except Exception: return 1
OnException ==
    /\ pc' = "exited"
    /\ exit_code' = <<1>>
    /\ raised_at' = next_input
    /\ UNCHANGED <<next_input, results, stdout>>

\* the iteration ends and the loop goes on
NextIteration ==
    /\ next_input' = next_input + 1
    /\ UNCHANGED <<pc, exit_code, raised_at>>

\* if not os.path.exists(input_file): continue
MainSkip ==
    /\ AtInput
    /\ ~input_file.file.exists
    /\ NextIteration
    /\ UNCHANGED <<total_bookmarks, total_folders, processed_files, _formats, ret, events,
                   written, returned_sum, ncalls, call, pin, pout, args, results, stdout>>

\* the --stats-only branch after decode_html did d
MainAfterStats(d) ==
    /\ DecoderAfterHtml(d)
    /\ IF d.ret.kind = "raise"
       THEN OnException
       ELSE /\ stdout' = Append(stdout, [block |-> "stats", input |-> next_input,
                                         bookmarks |-> Len(d.ret.value),
                                         folders |-> total_folders])
            /\ NextIteration
            /\ UNCHANGED results

\* an iteration with --stats-only
MainStats ==
    /\ AtInput
    /\ input_file.file.exists
    /\ args.stats_only
    /\ MainAfterStats(decode_html(input_file.file))
    /\ call' = [op |-> "decode_html", input |-> next_input]
    /\ UNCHANGED <<total_folders, _formats, written, ncalls, pin, pout, args>>

\* the converting branch after convert did c
MainAfterConvert(c) ==
    /\ AfterConvert(c)
    /\ IF c.ret.kind = "raise"
       THEN OnException
       ELSE /\ results' = Append(results, c.ret.value)
            /\ NextIteration
            /\ UNCHANGED stdout

\* an iteration without --stats-only
MainConvert(io) ==
    /\ AtInput
    /\ input_file.file.exists
    /\ ~args.stats_only
    /\ MainAfterConvert(convert(_formats, input_file.file, args.format, MainOutputFile, io))
    /\ call' = [op |-> "convert", input |-> next_input]
    /\ UNCHANGED <<total_folders, _formats, ncalls, pin, pout, args>>

\* the results main lists as output files: if result and isinstance(result, str)
OutputResults == SelectSeq(results, LAMBDA r : r \notin {None, <<>>})

\* the prints after the loop
Summary ==
    [block |-> "summary", files |-> Len(results), bookmarks |-> total_bookmarks,
     folders |-> total_folders, outputs |-> OutputResults]

\* after the loop: the summary, and return 0
MainReturn ==
    /\ pc = "loop"
    /\ next_input > Len(args.input_files)
    /\ stdout' = IF results # <<>> /\ ~args.stats_only THEN Append(stdout, Summary)
                 ELSE stdout
    /\ pc' = "exited"
    /\ exit_code' = <<0>>
    /\ UNCHANGED <<total_bookmarks, total_folders, processed_files, _formats, ret, events,
                   written, returned_sum, ncalls, call, pin, pout, args, next_input,
                   results, raised_at>>

NextMain ==
    \/ MainSkip
    \/ MainStats
    \/ \E io \in IOOutcomes : MainConvert(io)
    \/ MainReturn

SpecMain == InitMain /\ [][NextMain]_vars

-----------------------------------------------------------------------------
(* Properties of decode *)

\* the last call was a decode (directly or through decode_html) that returned
Decoded == call.op \in {"decode", "decode_html"} /\ ret.kind = "return"

\* the markup the last decode worked on
LastSoup == IF call.op = "decode" THEN call.soup ELSE call.file.soup

RECURSIVE AncestorsOf(_, _)
AncestorsOf(soup, i) ==
    IF soup[i].parent = 0 THEN {}
    ELSE {soup[i].parent} \cup AncestorsOf(soup, soup[i].parent)

RECURSIVE Ascending(_)
\* the elements of a set of node indexes, first in the document first
Ascending(S) ==
    IF S = {} THEN <<>>
    ELSE LET m == CHOOSE x \in S : \A y \in S : x <= y
         IN <<m>> \o Ascending(S \ {m})

\* the h3 that precedes node j among its siblings, 0 when there is none
HeadingBefore(soup, j) ==
    IF \E h \in 1..(j - 1) : soup[h].tag = "h3" /\ soup[h].parent = soup[j].parent
    THEN CHOOSE h \in 1..(j - 1) :
            /\ soup[h].tag = "h3" /\ soup[h].parent = soup[j].parent
            /\ \A g \in (h + 1)..(j - 1) : ~(soup[g].tag = "h3" /\ soup[g].parent = soup[j].parent)
    ELSE 0

\* the enclosing dl lists of link i that a titled h3 precedes, outermost first
TitledLists(soup, i) ==
    Ascending({j \in AncestorsOf(soup, i) :
                 /\ soup[j].tag = "dl"
                 /\ HeadingBefore(soup, j) # 0
                 /\ soup[HeadingBefore(soup, j)].string \notin {None, <<>>}})

\* the titles of those h3 headings, outermost first, joined with ' > '
JoinedTitles(soup, i) ==
    LET lists == TitledLists(soup, i)
    IN Join([k \in 1..Len(lists) |-> soup[HeadingBefore(soup, lists[k])].string], FOLDER_SEP)

\* the link a record was made from (the links of a markup have distinct texts)
LinkOf(soup, record) ==
    CHOOSE i \in 1..Len(soup) : soup[i].tag = "a" /\ Strip(soup[i].string) = record.title

\* C1 as stated: the folder of every record made from a link below at least one
\* titled heading is exactly the titles of the headings of its enclosing lists,
\* outermost first, joined with ' > '.
C1_FolderIsJoinedTitles ==
    Decoded =>
        \A k \in 1..Len(ret.value) :
            LET i == LinkOf(LastSoup, ret.value[k])
            IN TitledLists(LastSoup, i) # <<>> =>
                  ret.value[k].folder = JoinedTitles(LastSoup, i)

\* C1 amended: the folder is those joined titles after the cleaning of
\* _clean_folder_path (surrounding whitespace stripped, then leading '>' characters,
\* then surrounding whitespace again); it is exactly the joined titles whenever
\* they neither begin with whitespace or '>' nor end with whitespace.
C1_FolderIsCleanedJoinedTitles ==
    Decoded =>
        \A k \in 1..Len(ret.value) :
            LET i == LinkOf(LastSoup, ret.value[k])
                joined == JoinedTitles(LastSoup, i)
            IN TitledLists(LastSoup, i) # <<>> =>
                  /\ ret.value[k].folder = Strip(LStripSet(Strip(joined), {">"}))
                  /\ (Head(joined) \notin Whitespace \cup {">"}
                        /\ joined[Len(joined)] \notin Whitespace)
                     => ret.value[k].folder = joined

\* a link in folder A's sub-folder B was decoded to folder 'A > B'
C1_Witness ==
    /\ Decoded
    /\ \E k \in 1..Len(ret.value) :
          /\ ret.value[k].folder = <<"A", " ", ">", " ", "B">>
          /\ Len(TitledLists(LastSoup, LinkOf(LastSoup, ret.value[k]))) = 2

\* C2 as stated: every record decode returns has a non-empty folder, and the
\* folder is the root placeholder when no titled heading precedes an enclosing list.
C2_FolderNonEmpty ==
    Decoded =>
        \A k \in 1..Len(ret.value) :
            /\ ret.value[k].folder # <<>>
            /\ TitledLists(LastSoup, LinkOf(LastSoup, ret.value[k])) = <<>>
               => ret.value[k].folder = ROOT_FOLDER

\* the links below the root dl, first in the document first
LinksUnderRoot(soup) ==
    LET dls == {j \in 1..Len(soup) : soup[j].tag = "dl"}
        root == CHOOSE j \in dls : \A g \in dls : j <= g
    IN IF dls = {} THEN <<>>
       ELSE Ascending({i \in 1..Len(soup) : soup[i].tag = "a" /\ root \in AncestorsOf(soup, i)})

\* building the record of link i raises
ParseRaises(soup, i) == _parse_bookmark(soup[i], <<>>) = <<>>

\* C3: decode returns (it does not raise) exactly one record for every link under
\* the root whose parsing does not raise, in document order; a link whose parsing
\* raises is the only thing skipped.
C3_OnlyFailingLinksSkipped ==
    call.op \in {"decode", "decode_html"}
        /\ (call.op = "decode_html" => call.file.exists /\ call.file.readable)
    => /\ ret.kind = "return"
       /\ LET links == LinksUnderRoot(LastSoup)
              kept == SelectSeq(links, LAMBDA i : ~ParseRaises(LastSoup, i))
          IN /\ Len(ret.value) = Len(kept)
             /\ \A k \in 1..Len(kept) : ret.value[k].title = Strip(LastSoup[kept[k]].string)

\* a decode skipped a failing link that stands between two links it kept
C3_Witness ==
    /\ call.op = "decode"
    /\ Len(ret.value) >= 2
    /\ LET links == LinksUnderRoot(LastSoup)
       IN \E a, b, c \in 1..Len(links) :
             /\ a < b /\ b < c
             /\ ~ParseRaises(LastSoup, links[a])
             /\ ParseRaises(LastSoup, links[b])
             /\ ~ParseRaises(LastSoup, links[c])

\* C10: total_bookmarks is the sum of the lengths of the record lists the decode
\* calls returned (skipped links are not counted), and no step decreases it.
C10_CounterIsCumulative ==
    /\ [](total_bookmarks = returned_sum)
    /\ [][total_bookmarks' >= total_bookmarks]_vars

\* a second decode that skipped a link left the counter at the sum over both calls
C10_Witness ==
    /\ ncalls = 2
    /\ call.op = "decode"
    /\ Len(ret.value) >= 1
    /\ total_bookmarks > Len(ret.value)
    /\ \E i \in 1..Len(LastSoup) : LastSoup[i].tag = "a" /\ ParseRaises(LastSoup, i)

-----------------------------------------------------------------------------
(* Properties of the registry and of convert *)

\* the names of the encoder functions
EncoderFuncs == {"_encode_excel", "_encode_csv", "_encode_json", "_encode_stdout",
                 "_encode_flare"}

Invoked(name) == \E i \in 1..Len(events) : events[i] = name

EncoderInvoked == \E i \in 1..Len(events) : events[i] \in EncoderFuncs

\* the last call passed a format name that is not in the registry
UnregisteredFormat(op) == call.op = op /\ ~HasFormat(_formats, call.output_format)

UnsupportedFormatError == ret.kind = "raise" /\ ret.exc = "ValueError" /\ ret.msg[1] = UNSUPPORTED

\* C6 as stated: encode with an unregistered format name fails with the
\* unsupported-format error, its message lists the registered formats, and no
\* encoder function is invoked.
C6_ErrorListsFormats ==
    UnregisteredFormat("encode") =>
        /\ UnsupportedFormatError
        /\ \A i \in 1..Len(_formats) : \E j \in 1..Len(ret.msg) : ret.msg[j] = _formats[i].name
        /\ ~EncoderInvoked

\* C6 amended: encode with an unregistered format name fails with the
\* unsupported-format error, whose message names the requested format and nothing
\* else, and no encoder function is invoked.
C6_ErrorNamesRequestedFormat ==
    UnregisteredFormat("encode") =>
        /\ UnsupportedFormatError
        /\ ret.msg = <<UNSUPPORTED, call.output_format>>
        /\ ~EncoderInvoked

\* encode was called with 'xml' while 'xml' was not registered, on a non-empty list
C6_Witness ==
    /\ UnregisteredFormat("encode")
    /\ call.output_format = "xml"
    /\ call.bookmarks # <<>>
    /\ ret.kind = "raise"

\* the input of the last convert exists and can be read
InputRead == call.file.exists /\ call.file.readable

\* the records the input of the last convert decodes to
InputRecords == DecodeOf[call.file.soup].bookmarks

\* C7 as stated: convert with an unregistered format name fails with the
\* unsupported-format error without the decoder having been invoked, for every input.
C7_FormatCheckedBeforeDecode ==
    UnregisteredFormat("convert") =>
        /\ UnsupportedFormatError
        /\ ~Invoked("decode_html")
        /\ ~Invoked("decode")

\* C7 amended: convert with an unregistered format name invokes the decoder
\* first; it fails with the unsupported-format error exactly when the input was
\* read and decoded to at least one record, returns None when the input decoded to
\* zero records, and raises the decoder's error when the input could not be read.
C7_FormatCheckedAfterDecode ==
    UnregisteredFormat("convert") =>
        /\ Len(events) >= 2 /\ events[1] = "convert" /\ events[2] = "decode_html"
        /\ ~EncoderInvoked
        /\ UnsupportedFormatError <=> (InputRead /\ InputRecords # <<>>)
        /\ UnsupportedFormatError => Invoked("decode") /\ ret.msg[2] = call.output_format
        /\ (InputRead /\ InputRecords = <<>>) => ret = Returned(None)
        /\ ~call.file.exists => ret.kind = "raise" /\ ret.exc = "FileNotFoundError"
        /\ (call.file.exists /\ ~call.file.readable) => ret.kind = "raise" /\ ret.exc = "OSError"

\* convert was called with 'xml', not registered, on an input with records
C7_Witness ==
    /\ UnregisteredFormat("convert")
    /\ InputRead
    /\ InputRecords # <<>>
    /\ events = <<"convert", "decode_html", "decode", "encode">>
    /\ ret.kind = "raise"

\* the last call was a convert whose input was read and decoded to zero records
ConvertedNothing == call.op = "convert" /\ InputRead /\ InputRecords = <<>>

\* C8: when decoding the input yields zero records, convert returns None without
\* raising, invokes no encoder, and writes no output artifact.
C8_EmptyDecodeReturnsNone ==
    /\ [](ConvertedNothing =>
            /\ ret = Returned(None)
            /\ events = <<"convert", "decode_html", "decode">>)
    /\ [][ConvertedNothing' => written' = written]_vars

\* convert returned None for an input whose only link failed to parse, with a
\* registered format
C8_Witness ==
    /\ ConvertedNothing
    /\ HasFormat(_formats, call.output_format)
    /\ \E i \in 1..Len(call.file.soup) : call.file.soup[i].tag = "a"
    /\ ret = Returned(None)

-----------------------------------------------------------------------------
(* Properties of the helpers *)

\* every character of s is a decimal digit
AllDecimal(s) == s # <<>> /\ \A i \in 1..Len(s) : s[i] \in DecimalDigits

\* the value is a formatted date
Formatted(v) == Len(v) >= 3 /\ v[1] = "Y-m-d H:M:S"

\* C4 as stated: _convert_timestamp never raises and returns the formatted date
\* or the placeholder; a numeric value beyond the range of the date conversion
\* gives the placeholder; and the record of the link is still produced.
C4_TimestampConversionTotal ==
    /\ pout.fn = "_convert_timestamp" =>
          /\ pout.value.kind = "return"
          /\ pout.value.value = UNKNOWN_DATE \/ Formatted(pout.value.value)
          /\ LET timestamp == Get(pin.a_element, "add_date", <<>>)
             IN (AllDecimal(timestamp) /\ ~NumLeq(timestamp, MAX_DATETIME))
                    => pout.value.value = UNKNOWN_DATE
    /\ pout.fn = "_parse_bookmark" => pout.value # <<>>

\* the text between the first '://' of url and the next '/'
Authority(url) ==
    LET rest == SubSeq(url, Find(url, SCHEME_SEP) + Len(SCHEME_SEP), Len(url))
        slash == Find(rest, <<"/">>)
    IN IF slash = 0 THEN rest ELSE SubSeq(rest, 1, slash - 1)

\* C5 as stated: _extract_domain gives '' for a URL without '://', and otherwise
\* the authority segment with only a leading 'www.' removed.
C5_OnlyLeadingWwwRemoved ==
    pout.fn = "_extract_domain" =>
        LET url == Get(pin.a_element, "href", <<>>)
        IN IF ~Contains(url, SCHEME_SEP) THEN pout.value = <<>>
           ELSE pout.value =
                   (IF StartsWith(Authority(url), WWW)
                    THEN SubSeq(Authority(url), Len(WWW) + 1, Len(Authority(url)))
                    ELSE Authority(url))

-----------------------------------------------------------------------------
(* Properties of the flare encoder *)

\* the last _encode_flare wrote its file
FlareWritten == pout.fn = "_encode_flare" /\ pout.value.ret.kind = "return"

FlareOut == pout.value.files[1].data

\* the non-empty folder values of the records handed to the encoder
InputFolders == {pin.bookmarks[i].folder : i \in 1..Len(pin.bookmarks)} \ {<<>>}

\* C9: the categories are exactly the distinct non-empty folders of the records,
\* in sorted order, with ids 1..n; every link of a record with a non-empty folder
\* carries the id of the category whose title is that folder.
C9_FlareCategories ==
    FlareWritten =>
        LET categories == FlareOut.categories
            links == FlareOut.links
        IN /\ Len(categories) = Cardinality(InputFolders)
           /\ {categories[i].title : i \in 1..Len(categories)} = InputFolders
           /\ \A i \in 1..Len(categories) : categories[i].id = i
           /\ \A i, j \in 1..Len(categories) :
                 i < j => StrLess(categories[i].title, categories[j].title)
           /\ Len(links) = Len(pin.bookmarks)
           /\ \A k \in 1..Len(links) :
                 pin.bookmarks[k].folder # <<>> =>
                    /\ "category" \in DOMAIN links[k]
                    /\ \E i \in 1..Len(categories) :
                          /\ categories[i].id = links[k].category
                          /\ categories[i].title = pin.bookmarks[k].folder

\* three records, two of them in the same folder and one in the root placeholder
\* folder, were encoded into two categories
C9_Witness ==
    /\ FlareWritten
    /\ Len(pin.bookmarks) = 3
    /\ Cardinality(InputFolders) = 2
    /\ ROOT_FOLDER \in InputFolders
    /\ \A k \in 1..3 : pin.bookmarks[k].folder # <<>>
    /\ Len(FlareOut.categories) = 2

-----------------------------------------------------------------------------
(* Properties of main *)

\* the processing of an existing input file raised
Failed == raised_at > 0

\* the output written by the i-th write of w is still what its file holds: no
\* later write opened the same name
Remains(w, i) == \A j \in (i + 1)..Len(w) : w[j].file # w[i].file

\* main printed the summary
SummaryPrinted == \E k \in 1..Len(stdout) : stdout[k].block = "summary"

\* after the failure the last file main worked on is the failing one, and
\* nothing is decoded, encoded, written or printed any more
C11_NoLaterInput ==
    /\ [](Failed => call.input = raised_at /\ next_input = raised_at)
    /\ [][Failed => UNCHANGED <<call, total_bookmarks, processed_files, written, results,
                               stdout>>]_vars

\* after the failure there is no summary and main has returned 1
C11_NoSummaryExitOne == Failed => ~SummaryPrinted /\ exit_code = <<1>>

\* the step in which the processing raises leaves every output intact that was
\* intact before it
C11_OutputsRemain ==
    [][raised_at = 0 /\ raised_at' > 0 =>
          \A i \in 1..Len(written) : Remains(written, i) => Remains(written', i)]_vars

\* C11: in main's loop over the input files, once decoding or encoding an
\* existing input file raises, no later input file is processed, no summary is
\* printed, main returns 1, and the outputs written for earlier files remain.
C11_FailureAbortsBatchKeepingOutputs ==
    /\ C11_NoLaterInput
    /\ []C11_NoSummaryExitOne
    /\ C11_OutputsRemain

====
